---- MODULE Spec2Model ----
(***************************************************************************)
(* Model of the API gateway of api-gateway-resilience:                     *)
(*   - slidingRateLimiter (middleware/slidingRateLimiter.ts), mounted with *)
(*     app.use before every route;                                         *)
(*   - rateLimiter, the fixed-window middleware (middleware/rateLimiter.ts *)
(*     lines 1-42), exported but not mounted by the application;           *)
(*   - the routes GET /health and GET /call-slow, the retrying caller      *)
(*     callSlowServiceWithRetry and the circuit breaker kept in the three  *)
(*     module-level variables failureCount, circuitOpen, lastFailureTime.  *)
(* Time is Date.now() in milliseconds.  JavaScript runs each handler       *)
(* without interruption up to its next await, so an action is one such     *)
(* run-to-completion segment.                                              *)
(***************************************************************************)
EXTENDS Integers, Sequences, FiniteSets, TLC

----------------------------------------------------------------------------
(* Program constants *)

WINDOW_MS == 60000

MAX_REQUESTS == 5

WINDOW_SECONDS == 60

FW_MAX_REQUESTS == 5

FAILURE_THRESHOLD == 3

OPEN_TIMEOUT_MS == 10000

BACKOFF_MS == 1000

\* the `delay` the gateway asks of the slow service (rateLimiter.ts:58, 69)
SLOW_DELAY_MS == 800

\* the `timeout` of each axios.get (rateLimiter.ts:59, 70)
ATTEMPT_TIMEOUT_MS == 500

\* the delay of the slow service when the query has none (index.ts:6)
DEFAULT_DELAY_MS == 3000

----------------------------------------------------------------------------
(* Bounds of the model *)

\* requests a behaviour of Spec may contain
MaxReq == 6

\* requests for /call-slow a behaviour of Spec may contain
MaxCallSlow == 3

\* requests a behaviour of SpecAny may contain
MaxReqAny == 3

\* calls a behaviour of SpecBreakerSeq may contain
MaxSeqCalls == 5

\* calls a behaviour of SpecBreaker may contain
MaxCalls == 4

\* calls that may be in flight (arrived, not yet answered) at once in SpecBreaker
MaxInFlight == 2

\* calls a behaviour of SpecOutageSeq may contain after the outage
MaxAfterOutageSeq == 5

\* calls a behaviour of SpecOutage may contain after the outage
MaxAfterOutage == 3

\* calls a behaviour of SpecRetry may contain
MaxRetryCalls == 3

\* requests a behaviour of SpecLimiter may contain
MaxLimReq == 5

\* calls a behaviour of SpecRace may contain
MaxRaceCalls == 4

\* requests a behaviour of SpecKeys may contain
MaxKeyReq == 7

\* requests a behaviour of SpecFixed may contain
MaxFixedReq == 11

\* requests a behaviour of SpecGuidance may contain
MaxGuidanceReq == 7

\* calls a behaviour of SpecSlow may contain
MaxSlowCalls == 6

\* client addresses (req.ip), as client numbers
Keys == 1..(MaxSeqCalls + MaxCalls + MaxAfterOutageSeq + MaxAfterOutage + MaxRetryCalls + MaxRaceCalls)

Routes == {"/health", "/call-slow"}

\* The time, in ms, between one arrival and the next.  0, 1 and 59999 give
\* requests of the same millisecond and the two boundaries of the sliding
\* window (an entry still counts 59999 ms later, and is pruned 60000 ms later).
WindowGaps == {0, 1, 59999}

\* 8999 and 9000 give, after a failed call's backoff of 1000 ms, the two
\* boundaries of the breaker's cooldown (9999 ms and 10000 ms after the call).
CooldownGaps == {0, 8999, 9000}

\* 999 brings an arrival one millisecond before a backoff timer set at the
\* last event is due
BackoffGaps == {0, 999}

\* 60000 is the retryAfterMs of the sliding limiter's 429, 59999 one
\* millisecond less
GuidanceGaps == {0, 1, 59999, 60000}

----------------------------------------------------------------------------
VARIABLES
  clock,            \* Date.now()
  mounted,          \* the limiter middleware mounted by app.use
  zset,             \* redis sorted sets rate:sw:<ip> : sets of [member, score]
  zexp,             \* their expiry instants (0: no such key)
  counter,          \* redis counters rate:<ip> of the fixed-window limiter (0: no key)
  cexp,             \* their expiry instants (-1: the key has no expiry)
  failureCount,     \* rateLimiter.ts:75
  circuitOpen,      \* rateLimiter.ts:76
  lastFailureTime,  \* rateLimiter.ts:77
  reqs              \* the requests, in order of arrival, with what happened to each

vars == <<clock, mounted, zset, zexp, counter, cexp,
          failureCount, circuitOpen, lastFailureTime, reqs>>

storeVars == <<zset, zexp, counter, cexp>>

breakerVars == <<failureCount, circuitOpen, lastFailureTime>>

Max(a, b) == IF a >= b THEN a ELSE b

\* Math.ceil(a / b) for a >= 0, b > 0
Ceil(a, b) == (a + b - 1) \div b

----------------------------------------------------------------------------
(* The redis commands the limiters use.  A key whose expiry instant has    *)
(* passed no longer exists.                                                *)

\* ZADD key score member: a member already present keeps one entry, with the new score
ZAdd(zs, score, member) ==
  {e \in zs : e.member # member} \cup {[member |-> member, score |-> score]}

\* ZREMRANGEBYSCORE key lo hi: both ends inclusive
ZRemRangeByScore(zs, lo, hi) == {e \in zs : ~(lo <= e.score /\ e.score <= hi)}

ZCard(zs) == Cardinality(zs)

\* the sorted set of key k as redis sees it at instant t
LiveZSet(k, t) == IF t < zexp[k] THEN zset[k] ELSE {}

\* the counter of key k as redis sees it at instant t
LiveCounter(k, t) == IF cexp[k] >= 0 /\ t >= cexp[k] THEN 0 ELSE counter[k]

\* the member string `${now}` of slidingRateLimiter.ts:20: the decimal text of
\* now, which is one string per number, so the number stands for it
Member(now) == now

\* The pipeline of slidingRateLimiter.ts:17-31 run on the set zs at `now`:
\* zadd, zremrangebyscore, zcard; results[2][1] is the zcard reply.
SlidingPipeline(zs, now) ==
  LET added  == ZAdd(zs, now, Member(now))
      pruned == ZRemRangeByScore(added, 0, now - WINDOW_MS)
  IN  [set |-> pruned, requestCount |-> ZCard(pruned)]

----------------------------------------------------------------------------
(* Requests *)

NoReq ==
  [ip |-> 1, route |-> "/health", pc |-> "limiter",
   limNow |-> 0, storeOk |-> TRUE, requestCount |-> 0,
   status |-> 0, body |-> "", remaining |-> -1, retryAfter |-> -1,
   nextCalls |-> 0, handlerRan |-> FALSE,
   now |-> -1, sawOpen |-> FALSE, sawLast |-> -1, sawCount |-> -1,
   calls |-> 0, wakeAt |-> -1,
   err1 |-> "none", failedAt |-> -1, retryAt |-> -1, responses |-> 0]

NewReq(k, route, t, ok, count) ==
  [NoReq EXCEPT !.ip = k, !.route = route, !.limNow = t,
                !.storeOk = ok, !.requestCount = count]

InFlight == {i \in 1..Len(reqs) : reqs[i].pc # "done"}

\* res.status(s).json(b): the first response of a request is the one sent
Respond(r, s, b) ==
  IF r.status = 0
    THEN [r EXCEPT !.status = s, !.body = b, !.responses = @ + 1]
    ELSE [r EXCEPT !.responses = @ + 1]

----------------------------------------------------------------------------
(* slidingRateLimiter, after `await pipeline.exec()` (lines 32-52) *)

\* lines 36-37
SlidingRemaining(requestCount) == Max(0, MAX_REQUESTS - requestCount)

\* line 40
SlidingExceeds(requestCount) == requestCount > MAX_REQUESTS

\* (mutant) the `return` of line 41 is missing: the 429 is sent and next() runs
SlidingRejectNoReturn(r) ==
  [Respond([r EXCEPT !.retryAfter = WINDOW_MS], 429, "Too many requests (sliding window)")
     EXCEPT !.nextCalls = @ + 1]

\* (mutant) the guidance one millisecond short of the window
SlidingRejectShortGuidance(r) ==
  Respond([r EXCEPT !.retryAfter = WINDOW_MS - 1], 429, "Too many requests (sliding window)")

\* lines 41-44: `return res.status(429).json(...)`, next() is not called
SlidingReject(r) ==
  Respond([r EXCEPT !.retryAfter = WINDOW_MS], 429, "Too many requests (sliding window)")

\* (mutant) fail-closed: the catch block answers 500 and does not call next()
SlidingCatchFailClosed(r) == Respond(r, 500, "Rate limiter unavailable")

\* lines 48-52: the catch block calls next()
SlidingCatch(r) == [r EXCEPT !.nextCalls = @ + 1]

SlidingAfterStore(r) ==
  IF ~r.storeOk
    THEN SlidingCatch(r)
    ELSE LET h == [r EXCEPT !.remaining = SlidingRemaining(r.requestCount)]
         IN  IF SlidingExceeds(r.requestCount)
               THEN SlidingReject(h)
               ELSE [h EXCEPT !.nextCalls = @ + 1]

----------------------------------------------------------------------------
(* rateLimiter, the fixed-window middleware, after its store calls         *)
(* (rateLimiter.ts lines 22-41)                                            *)

\* lines 23-26
FixedRemaining(currentCount) == Max(0, FW_MAX_REQUESTS - currentCount)

\* lines 29-34
FixedReject(r) ==
  Respond([r EXCEPT !.retryAfter = WINDOW_SECONDS], 429, "Too many requests")

\* lines 37-41
FixedCatch(r) == [r EXCEPT !.nextCalls = @ + 1]

\* (mutant) the comparison of line 29 one too high: six requests per window
FixedAfterStoreOneMore(r) ==
  IF ~r.storeOk
    THEN FixedCatch(r)
    ELSE LET h == [r EXCEPT !.remaining = FixedRemaining(r.requestCount)]
         IN  IF r.requestCount > FW_MAX_REQUESTS + 1
               THEN FixedReject(h)
               ELSE [h EXCEPT !.nextCalls = @ + 1]

FixedAfterStore(r) ==
  IF ~r.storeOk
    THEN FixedCatch(r)
    ELSE LET h == [r EXCEPT !.remaining = FixedRemaining(r.requestCount)]
         IN  IF r.requestCount > FW_MAX_REQUESTS
               THEN FixedReject(h)
               ELSE [h EXCEPT !.nextCalls = @ + 1]

----------------------------------------------------------------------------
(* The routes (rateLimiter.ts lines 83-85 and 109-145) *)

\* (mutant) /health answers 503 while the circuit is open
HealthHandlerBehindBreaker(r) ==
  [Respond([r EXCEPT !.handlerRan = TRUE],
           IF circuitOpen THEN 503 ELSE 200,
           IF circuitOpen THEN "Circuit open. Service temporarily unavailable." ELSE "gateway-up")
     EXCEPT !.pc = "done"]

\* GET /health
HealthHandler(r) ==
  [Respond([r EXCEPT !.handlerRan = TRUE], 200, "gateway-up") EXCEPT !.pc = "done"]

\* (mutant) the comparison of line 114 inverted
CoolingDownInverted(now, last) == now - last > OPEN_TIMEOUT_MS

\* (mutant) the comparison of line 114 with <= : the boundary still rejects
CoolingDownInclusive(now, last) == now - last <= OPEN_TIMEOUT_MS

\* line 114: the circuit is open and the cooldown has not elapsed
CoolingDown(now, last) == now - last < OPEN_TIMEOUT_MS

\* (mutant) the comparison of line 136 with > : one failure late
ThresholdExceeded(count) == count > FAILURE_THRESHOLD

\* line 136
ThresholdReached(count) == count >= FAILURE_THRESHOLD

\* (mutant) the half-open branch resets failureCount and leaves circuitOpen set
CallSlowEnterStaysOpen(r, now, fc, open, last) ==
  LET h == [r EXCEPT !.handlerRan = TRUE, !.now = now]
  IN  IF open /\ CoolingDown(now, last)
        THEN [req  |-> [Respond(h, 503, "Circuit open. Service temporarily unavailable.")
                          EXCEPT !.pc = "done"],
              failureCount |-> fc, circuitOpen |-> open]
        ELSE [req  |-> [h EXCEPT !.pc = "attempt1", !.calls = @ + 1],
              failureCount |-> IF open THEN 0 ELSE fc,
              circuitOpen  |-> open]

\* (mutant) a single-probe gate: while a call let through by the half-open
\* branch is still unanswered, every other call is answered 503
CallSlowEnterSingleProbe(r, now, fc, open, last) ==
  LET h == [r EXCEPT !.handlerRan = TRUE, !.now = now]
      probing == \E p \in 1..Len(reqs) :
                   /\ reqs[p].sawOpen /\ reqs[p].calls >= 1
                   /\ reqs[p].pc \in {"attempt1", "backoff", "attempt2"}
  IN  IF (open /\ CoolingDown(now, last)) \/ probing
        THEN [req  |-> [Respond(h, 503, "Circuit open. Service temporarily unavailable.")
                          EXCEPT !.pc = "done"],
              failureCount |-> fc, circuitOpen |-> open]
        ELSE [req  |-> [h EXCEPT !.pc = "attempt1", !.calls = @ + 1],
              failureCount |-> IF open THEN 0 ELSE fc,
              circuitOpen  |-> FALSE]

\* (mutant) a rejected call counted as a failure
CallSlowEnterRejectCounts(r, now, fc, open, last) ==
  LET h == [r EXCEPT !.handlerRan = TRUE, !.now = now]
  IN  IF open /\ CoolingDown(now, last)
        THEN [req  |-> [Respond(h, 503, "Circuit open. Service temporarily unavailable.")
                          EXCEPT !.pc = "done"],
              failureCount |-> fc + 1, circuitOpen |-> open]
        ELSE [req  |-> [h EXCEPT !.pc = "attempt1", !.calls = @ + 1],
              failureCount |-> IF open THEN 0 ELSE fc,
              circuitOpen  |-> FALSE]

\* GET /call-slow from its entry to the first await (lines 110-127 and 55-60):
\* the state of the breaker and of the request after it.
CallSlowEnter(r, now, fc, open, last) ==
  LET h == [r EXCEPT !.handlerRan = TRUE, !.now = now]
  IN  IF open /\ CoolingDown(now, last)
        THEN [req  |-> [Respond(h, 503, "Circuit open. Service temporarily unavailable.")
                          EXCEPT !.pc = "done"],
              failureCount |-> fc, circuitOpen |-> open]
        ELSE [req  |-> [h EXCEPT !.pc = "attempt1", !.calls = @ + 1],
              failureCount |-> IF open THEN 0 ELSE fc,
              circuitOpen  |-> FALSE]

----------------------------------------------------------------------------
(* Actions *)

Init ==
  /\ clock = 0
  /\ mounted = "sliding"
  /\ zset = [k \in Keys |-> {}]
  /\ zexp = [k \in Keys |-> 0]
  /\ counter = [k \in Keys |-> 0]
  /\ cexp = [k \in Keys |-> -1]
  /\ failureCount = 0
  /\ circuitOpen = FALSE
  /\ lastFailureTime = 0
  /\ reqs = << >>

\* (mutant) the key without the client's address: `rate:sw:` for every client
SlidingArriveSharedKey(k, route, ok, d) ==
  /\ mounted = "sliding"
  /\ clock' = clock + d
  /\ LET now == clock + d
         res == SlidingPipeline(LiveZSet(1, now), now)
     IN  IF ok
           THEN /\ zset' = [zset EXCEPT ![1] = res.set]
                /\ zexp' = [zexp EXCEPT ![1] = now + 1000 * Ceil(WINDOW_MS, 1000)]
                /\ reqs' = Append(reqs, NewReq(k, route, now, TRUE, res.requestCount))
           ELSE /\ UNCHANGED <<zset, zexp>>
                /\ reqs' = Append(reqs, NewReq(k, route, now, FALSE, 0))
  /\ UNCHANGED <<mounted, counter, cexp, breakerVars>>

\* A request of client k for `route` arrives d ms after the last event and
\* enters slidingRateLimiter (lines 12-31): now is read and the pipeline is
\* sent; redis runs the pipelines of one connection in the order they were
\* sent.  ok: the store answers; otherwise exec() rejects and nothing is stored.
SlidingArrive(k, route, ok, d) ==
  /\ mounted = "sliding"
  /\ clock' = clock + d
  /\ LET now == clock + d
         res == SlidingPipeline(LiveZSet(k, now), now)
     IN  IF ok
           THEN /\ zset' = [zset EXCEPT ![k] = res.set]
                /\ zexp' = [zexp EXCEPT ![k] = now + 1000 * Ceil(WINDOW_MS, 1000)]
                /\ reqs' = Append(reqs, NewReq(k, route, now, TRUE, res.requestCount))
           ELSE /\ UNCHANGED <<zset, zexp>>
                /\ reqs' = Append(reqs, NewReq(k, route, now, FALSE, 0))
  /\ UNCHANGED <<mounted, counter, cexp, breakerVars>>

\* A request enters rateLimiter (lines 12-20): INCR, and EXPIRE when the reply
\* is 1.  fail: the store call that rejects, if any ("incr", "expire", "none").
FixedArrive(k, route, fail, d) ==
  /\ mounted = "fixed"
  /\ clock' = clock + d
  /\ LET now == clock + d
         currentCount == LiveCounter(k, now) + 1
     IN  IF fail = "incr"
           THEN /\ UNCHANGED <<counter, cexp>>
                /\ reqs' = Append(reqs, NewReq(k, route, now, FALSE, 0))
           ELSE /\ fail = "expire" => currentCount = 1
                /\ counter' = [counter EXCEPT ![k] = currentCount]
                /\ cexp' = [cexp EXCEPT ![k] =
                              IF currentCount # 1 THEN @
                              ELSE IF fail = "expire" THEN -1
                              ELSE now + 1000 * WINDOW_SECONDS]
                /\ reqs' = Append(reqs, NewReq(k, route, now, fail = "none", currentCount))
  /\ UNCHANGED <<mounted, zset, zexp, breakerVars>>

\* The middleware resumes after its await; next() runs the route's handler
\* up to the handler's first await.
Resume(i) ==
  /\ i \in 1..Len(reqs)
  /\ reqs[i].pc = "limiter"
  /\ LET r0 == [reqs[i] EXCEPT !.sawOpen = circuitOpen, !.sawLast = lastFailureTime,
                               !.sawCount = failureCount]
         r1 == IF mounted = "sliding" THEN SlidingAfterStore(r0) ELSE FixedAfterStore(r0)
     IN  IF r1.nextCalls = 0
           THEN /\ reqs' = [reqs EXCEPT ![i] = [r1 EXCEPT !.pc = "done"]]
                /\ UNCHANGED breakerVars
           ELSE IF r1.route = "/health"
             THEN /\ reqs' = [reqs EXCEPT ![i] = HealthHandler(r1)]
                  /\ UNCHANGED breakerVars
             ELSE LET e == CallSlowEnter(r1, clock, failureCount, circuitOpen, lastFailureTime)
                  IN  /\ reqs' = [reqs EXCEPT ![i] = e.req]
                      /\ failureCount' = e.failureCount
                      /\ circuitOpen' = e.circuitOpen
                      /\ UNCHANGED lastFailureTime
  /\ UNCHANGED <<clock, mounted, storeVars>>

\* an attempt of callSlowServiceWithRetry is answered in time (lines 57-60, 68-71),
\* and the handler goes on at lines 128-129
AttemptSucceeds(i) ==
  /\ i \in 1..Len(reqs)
  /\ reqs[i].pc \in {"attempt1", "attempt2"}
  /\ failureCount' = 0
  /\ reqs' = [reqs EXCEPT ![i] = [Respond(@, 200, "slow response") EXCEPT !.pc = "done"]]
  /\ UNCHANGED <<clock, mounted, storeVars, circuitOpen, lastFailureTime>>

\* what makes axios.get reject: no answer within the 500 ms of `timeout`, a
\* failure that may pass (connection reset, HTTP 503), or one that will not
\* (HTTP 400)
Errors == {"timeout", "transient", "permanent"}

\* (mutant) the retry without the wait of line 65
FirstAttemptFailsNoBackoff(i, err) ==
  /\ i \in 1..Len(reqs)
  /\ reqs[i].pc = "attempt1"
  /\ reqs' = [reqs EXCEPT ![i] = [@ EXCEPT !.pc = "backoff", !.wakeAt = clock,
                                            !.err1 = err, !.failedAt = clock]]
  /\ UNCHANGED <<clock, mounted, storeVars, breakerVars>>

\* (mutant) the breaker counting attempts: the failure of the first attempt
\* adds to failureCount
FirstAttemptFailsCounted(i, err) ==
  /\ i \in 1..Len(reqs)
  /\ reqs[i].pc = "attempt1"
  /\ reqs' = [reqs EXCEPT ![i] = [@ EXCEPT !.pc = "backoff", !.wakeAt = clock + BACKOFF_MS,
                                            !.err1 = err, !.failedAt = clock]]
  /\ failureCount' = failureCount + 1
  /\ UNCHANGED <<clock, mounted, storeVars, circuitOpen, lastFailureTime>>

\* the first attempt rejects with err: the catch block of lines 61-65 does not
\* look at err and sets the backoff timer
FirstAttemptFails(i, err) ==
  /\ i \in 1..Len(reqs)
  /\ reqs[i].pc = "attempt1"
  /\ reqs' = [reqs EXCEPT ![i] = [@ EXCEPT !.pc = "backoff", !.wakeAt = clock + BACKOFF_MS,
                                            !.err1 = err, !.failedAt = clock]]
  /\ UNCHANGED <<clock, mounted, storeVars, breakerVars>>

\* the first attempt times out
Attempt1Fails(i) == FirstAttemptFails(i, "timeout")

\* the first attempt is answered with an error
Attempt1Errors(i) == \E err \in Errors \ {"timeout"} : FirstAttemptFails(i, err)

\* the backoff timer fires, when its delay has passed and not before:
\* lines 65-71, the second attempt starts
BackoffElapses(i) ==
  /\ i \in 1..Len(reqs)
  /\ reqs[i].pc = "backoff"
  /\ clock' = Max(clock, reqs[i].wakeAt)
  /\ reqs' = [reqs EXCEPT ![i] = [@ EXCEPT !.pc = "attempt2", !.calls = @ + 1,
                                            !.retryAt = Max(clock, reqs[i].wakeAt)]]
  /\ UNCHANGED <<mounted, storeVars, breakerVars>>

\* (mutant) a third attempt: the failure of the second one is caught and
\* retried like that of the first
Attempt2FailsRetries(i) ==
  /\ i \in 1..Len(reqs)
  /\ reqs[i].pc = "attempt2"
  /\ reqs[i].calls < 3
  /\ reqs' = [reqs EXCEPT ![i] = [@ EXCEPT !.pc = "backoff", !.wakeAt = clock + BACKOFF_MS]]
  /\ UNCHANGED <<clock, mounted, storeVars, breakerVars>>

\* (mutant) the catch block of the handler records the failure and sends nothing
Attempt2FailsNoAnswer(i) ==
  /\ i \in 1..Len(reqs)
  /\ reqs[i].pc = "attempt2"
  /\ failureCount' = failureCount + 1
  /\ lastFailureTime' = reqs[i].now
  /\ circuitOpen' = IF ThresholdReached(failureCount + 1) THEN TRUE ELSE circuitOpen
  /\ reqs' = [reqs EXCEPT ![i] = [@ EXCEPT !.pc = "done"]]
  /\ UNCHANGED <<clock, mounted, storeVars>>

\* the second attempt fails: the catch block of the handler, lines 130-144
Attempt2Fails(i) ==
  /\ i \in 1..Len(reqs)
  /\ reqs[i].pc = "attempt2"
  /\ failureCount' = failureCount + 1
  /\ lastFailureTime' = reqs[i].now
  /\ circuitOpen' = IF ThresholdReached(failureCount + 1) THEN TRUE ELSE circuitOpen
  /\ reqs' = [reqs EXCEPT ![i] = [Respond(@, 504, "Upstream failure") EXCEPT !.pc = "done"]]
  /\ UNCHANGED <<clock, mounted, storeVars>>

\* (mutant) a slow service that answers at once, whatever delay is asked
SlowServiceIgnoresDelay(delay) == 0

\* GET /slow of the slow service (index.ts:5-11): the time after which it
\* answers; delay is the number in the query, -1 when the query has none
SlowServiceDelay(delay) == IF delay = -1 THEN DEFAULT_DELAY_MS ELSE delay

\* the answer of the slow service comes before axios gives up
AnsweredInTime == SlowServiceDelay(SLOW_DELAY_MS) < ATTEMPT_TIMEOUT_MS

\* the first attempt against the slow service as it is coded: it succeeds or
\* times out according to the two durations
SlowAttempt1(i) ==
  IF AnsweredInTime
    THEN i \in 1..Len(reqs) /\ reqs[i].pc = "attempt1" /\ AttemptSucceeds(i)
    ELSE Attempt1Fails(i)

\* the second attempt, in the same way
SlowAttempt2(i) ==
  IF AnsweredInTime
    THEN i \in 1..Len(reqs) /\ reqs[i].pc = "attempt2" /\ AttemptSucceeds(i)
    ELSE Attempt2Fails(i)

CallSlowCount == Cardinality({i \in 1..Len(reqs) : reqs[i].route = "/call-slow"})

\* the clock starts with the first arrival
Gaps(S) == IF reqs = << >> THEN {0} ELSE S

\* The application as it is coded, serving one client that waits for each
\* answer before it sends its next request.
Arrival ==
  /\ Len(reqs) < MaxReq
  /\ InFlight = {}
  /\ \E route \in Routes, d \in Gaps(WindowGaps) :
       /\ route = "/call-slow" => CallSlowCount < MaxCallSlow
       /\ SlidingArrive(1, route, TRUE, d)

Next ==
  \/ Arrival
  \/ \E i \in 1..Len(reqs) : Resume(i)
  \/ \E i \in 1..Len(reqs) : AttemptSucceeds(i)
  \/ \E i \in 1..Len(reqs) : Attempt1Fails(i)
  \/ \E i \in 1..Len(reqs) : BackoffElapses(i)
  \/ \E i \in 1..Len(reqs) : Attempt2Fails(i)

Spec == Init /\ [][Next]_vars

\* Either limiter mounted, and a counter store that may fail.
InitAny ==
  /\ clock = 0
  /\ mounted \in {"sliding", "fixed"}
  /\ zset = [k \in Keys |-> {}]
  /\ zexp = [k \in Keys |-> 0]
  /\ counter = [k \in Keys |-> 0]
  /\ cexp = [k \in Keys |-> -1]
  /\ failureCount = 0
  /\ circuitOpen = FALSE
  /\ lastFailureTime = 0
  /\ reqs = << >>

ArrivalSliding ==
  /\ Len(reqs) < MaxReqAny
  /\ InFlight = {}
  /\ \E route \in Routes, d \in Gaps(WindowGaps), ok \in BOOLEAN :
       SlidingArrive(1, route, ok, d)

ArrivalFixed ==
  /\ Len(reqs) < MaxReqAny
  /\ InFlight = {}
  /\ \E route \in Routes, d \in Gaps(WindowGaps), fail \in {"none", "incr", "expire"} :
       FixedArrive(1, route, fail, d)

NextAny ==
  \/ ArrivalSliding
  \/ ArrivalFixed
  \/ \E i \in 1..Len(reqs) : Resume(i)
  \/ \E i \in 1..Len(reqs) : AttemptSucceeds(i)
  \/ \E i \in 1..Len(reqs) : Attempt1Fails(i)
  \/ \E i \in 1..Len(reqs) : BackoffElapses(i)
  \/ \E i \in 1..Len(reqs) : Attempt2Fails(i)

SpecAny == InitAny /\ [][NextAny]_vars

\* Calls of /call-slow, each from another client, so that the limiter admits
\* them all; one after another in SpecBreakerSeq, concurrent in SpecBreaker.
ArrivalSeq ==
  /\ Len(reqs) < MaxSeqCalls
  /\ InFlight = {}
  /\ \E d \in Gaps(CooldownGaps) : SlidingArrive(Len(reqs) + 1, "/call-slow", TRUE, d)

NextSeq ==
  \/ ArrivalSeq
  \/ \E i \in 1..Len(reqs) : Resume(i)
  \/ \E i \in 1..Len(reqs) : AttemptSucceeds(i)
  \/ \E i \in 1..Len(reqs) : Attempt1Fails(i)
  \/ \E i \in 1..Len(reqs) : BackoffElapses(i)
  \/ \E i \in 1..Len(reqs) : Attempt2Fails(i)

SpecBreakerSeq == Init /\ [][NextSeq]_vars

ArrivalConc ==
  /\ Len(reqs) < MaxCalls
  /\ Cardinality(InFlight) < MaxInFlight
  /\ \E d \in Gaps(CooldownGaps) : SlidingArrive(Len(reqs) + 1, "/call-slow", TRUE, d)

NextConc ==
  \/ ArrivalConc
  \/ \E i \in 1..Len(reqs) : Resume(i)
  \/ \E i \in 1..Len(reqs) : AttemptSucceeds(i)
  \/ \E i \in 1..Len(reqs) : Attempt1Fails(i)
  \/ \E i \in 1..Len(reqs) : BackoffElapses(i)
  \/ \E i \in 1..Len(reqs) : Attempt2Fails(i)

SpecBreaker == Init /\ [][NextConc]_vars

\* An outage of the slow service: the first FAILURE_THRESHOLD calls are made
\* back to back while the service does not answer, so that they open the
\* circuit; afterwards the service may answer or not.  The calls after the
\* outage come one after another in SpecOutageSeq and concurrently in
\* SpecOutage.
OutageCalls == FAILURE_THRESHOLD

ArrivalOutageSeq ==
  /\ Len(reqs) < OutageCalls + MaxAfterOutageSeq
  /\ InFlight = {}
  /\ \E d \in (IF Len(reqs) < OutageCalls THEN {0} ELSE CooldownGaps) :
       SlidingArrive(Len(reqs) + 1, "/call-slow", TRUE, d)

\* the slow service answers an attempt, the outage being over
RecoveredSucceeds(i) ==
  /\ Len(reqs) > OutageCalls
  /\ AttemptSucceeds(i)

NextOutageSeq ==
  \/ ArrivalOutageSeq
  \/ \E i \in 1..Len(reqs) : Resume(i)
  \/ \E i \in 1..Len(reqs) : RecoveredSucceeds(i)
  \/ \E i \in 1..Len(reqs) : Attempt1Fails(i)
  \/ \E i \in 1..Len(reqs) : BackoffElapses(i)
  \/ \E i \in 1..Len(reqs) : Attempt2Fails(i)

SpecOutageSeq == Init /\ [][NextOutageSeq]_vars

ArrivalOutage ==
  /\ Len(reqs) < OutageCalls + MaxAfterOutage
  /\ IF Len(reqs) <= OutageCalls
       THEN InFlight = {}
       ELSE Cardinality(InFlight) < MaxInFlight
  /\ \E d \in (IF Len(reqs) < OutageCalls THEN {0} ELSE CooldownGaps) :
       SlidingArrive(Len(reqs) + 1, "/call-slow", TRUE, d)

NextOutage ==
  \/ ArrivalOutage
  \/ \E i \in 1..Len(reqs) : Resume(i)
  \/ \E i \in 1..Len(reqs) : RecoveredSucceeds(i)
  \/ \E i \in 1..Len(reqs) : Attempt1Fails(i)
  \/ \E i \in 1..Len(reqs) : BackoffElapses(i)
  \/ \E i \in 1..Len(reqs) : Attempt2Fails(i)

SpecOutage == Init /\ [][NextOutage]_vars

\* SpecOutage with what the runtime guarantees: an attempt that is not
\* answered is rejected by axios when its `timeout` of 500 ms is over (lines
\* 59, 70), and the timer of line 65 fires.  Nothing is assumed of the slow
\* service: it need not ever answer.
FairOutage ==
  \A i \in 1..(OutageCalls + MaxAfterOutage) :
    /\ WF_vars(Attempt1Fails(i))
    /\ WF_vars(BackoffElapses(i))
    /\ WF_vars(Attempt2Fails(i))

SpecOutageLive == Init /\ [][NextOutage]_vars /\ FairOutage

\* Concurrent calls of /call-slow whose attempts succeed, time out or are
\* answered with an error.
ArrivalRetry ==
  /\ Len(reqs) < MaxRetryCalls
  /\ Cardinality(InFlight) < MaxInFlight
  /\ \E d \in Gaps(BackoffGaps) : SlidingArrive(Len(reqs) + 1, "/call-slow", TRUE, d)

NextRetry ==
  \/ ArrivalRetry
  \/ \E i \in 1..Len(reqs) : Resume(i)
  \/ \E i \in 1..Len(reqs) : AttemptSucceeds(i)
  \/ \E i \in 1..Len(reqs) : Attempt1Fails(i)
  \/ \E i \in 1..Len(reqs) : Attempt1Errors(i)
  \/ \E i \in 1..Len(reqs) : BackoffElapses(i)
  \/ \E i \in 1..Len(reqs) : Attempt2Fails(i)

SpecRetry == Init /\ [][NextRetry]_vars

\* Concurrent calls of /call-slow that overlap by less than the time one call
\* takes (two attempts and the backoff).
ArrivalRace ==
  /\ Len(reqs) < MaxRaceCalls
  /\ Cardinality(InFlight) < MaxInFlight
  /\ \E d \in Gaps(BackoffGaps) : SlidingArrive(Len(reqs) + 1, "/call-slow", TRUE, d)

NextRace ==
  \/ ArrivalRace
  \/ \E i \in 1..Len(reqs) : Resume(i)
  \/ \E i \in 1..Len(reqs) : AttemptSucceeds(i)
  \/ \E i \in 1..Len(reqs) : Attempt1Fails(i)
  \/ \E i \in 1..Len(reqs) : BackoffElapses(i)
  \/ \E i \in 1..Len(reqs) : Attempt2Fails(i)

SpecRace == Init /\ [][NextRace]_vars

\* Two clients, either limiter mounted, the store available.
TwoKeys == {1, 2}

ArrivalKeysSliding ==
  /\ Len(reqs) < MaxKeyReq
  /\ InFlight = {}
  /\ \E k \in TwoKeys, d \in Gaps(WindowGaps) : SlidingArrive(k, "/health", TRUE, d)

ArrivalKeysFixed ==
  /\ Len(reqs) < MaxKeyReq
  /\ InFlight = {}
  /\ \E k \in TwoKeys, d \in Gaps(WindowGaps) : FixedArrive(k, "/health", "none", d)

NextKeys ==
  \/ ArrivalKeysSliding
  \/ ArrivalKeysFixed
  \/ \E i \in 1..Len(reqs) : Resume(i)

SpecKeys == InitAny /\ [][NextKeys]_vars

\* rateLimiter mounted in the place of slidingRateLimiter, one client, the
\* store available.
InitFixed ==
  /\ clock = 0
  /\ mounted = "fixed"
  /\ zset = [k \in Keys |-> {}]
  /\ zexp = [k \in Keys |-> 0]
  /\ counter = [k \in Keys |-> 0]
  /\ cexp = [k \in Keys |-> -1]
  /\ failureCount = 0
  /\ circuitOpen = FALSE
  /\ lastFailureTime = 0
  /\ reqs = << >>

ArrivalFixedOnly ==
  /\ Len(reqs) < MaxFixedReq
  /\ InFlight = {}
  /\ \E d \in Gaps(WindowGaps) : FixedArrive(1, "/health", "none", d)

NextFixed ==
  \/ ArrivalFixedOnly
  \/ \E i \in 1..Len(reqs) : Resume(i)

SpecFixed == InitFixed /\ [][NextFixed]_vars

\* One client that may wait for the time the 429 tells it to wait.
ArrivalGuidance ==
  /\ Len(reqs) < MaxGuidanceReq
  /\ InFlight = {}
  /\ \E d \in Gaps(GuidanceGaps) : SlidingArrive(1, "/health", TRUE, d)

NextGuidance ==
  \/ ArrivalGuidance
  \/ \E i \in 1..Len(reqs) : Resume(i)

SpecGuidance == Init /\ [][NextGuidance]_vars

\* Calls of /call-slow, one after another, against the slow service as it
\* is coded.
ArrivalSlow ==
  /\ Len(reqs) < MaxSlowCalls
  /\ InFlight = {}
  /\ \E d \in Gaps(CooldownGaps) : SlidingArrive(Len(reqs) + 1, "/call-slow", TRUE, d)

NextSlow ==
  \/ ArrivalSlow
  \/ \E i \in 1..Len(reqs) : Resume(i)
  \/ \E i \in 1..Len(reqs) : SlowAttempt1(i)
  \/ \E i \in 1..Len(reqs) : BackoffElapses(i)
  \/ \E i \in 1..Len(reqs) : SlowAttempt2(i)

SpecSlow == Init /\ [][NextSlow]_vars

\* Concurrent requests of one client: a request may arrive while the limiter
\* evaluations of earlier ones are still awaiting pipeline.exec().
ArrivalLimiter ==
  /\ Len(reqs) < MaxLimReq
  /\ Cardinality(InFlight) < MaxInFlight
  /\ \E d \in Gaps(WindowGaps) : SlidingArrive(1, "/health", TRUE, d)

NextLimiter ==
  \/ ArrivalLimiter
  \/ \E i \in 1..Len(reqs) : Resume(i)

SpecLimiter == Init /\ [][NextLimiter]_vars

----------------------------------------------------------------------------
(* Properties.  reqs keeps, for each request, what the limiter and the      *)
(* handlers did with it; sawOpen, sawLast and sawCount are the breaker's     *)
(* variables as they were when the request left the limiter.                *)

Ids == 1..Len(reqs)

\* the limiter has decided on request i
Decided(i) == reqs[i].pc # "limiter"

\* the limiter let request i through (next() was called, no 429)
Admitted(i) == Decided(i) /\ reqs[i].nextCalls > 0 /\ reqs[i].status # 429

\* the requests of i's client, up to and including i, that the store recorded
\* with a timestamp in (now - WINDOW_MS, now], now being i's timestamp
RecordedInWindow(i) ==
  {j \in 1..i : /\ reqs[j].ip = reqs[i].ip
                /\ reqs[j].storeOk
                /\ reqs[j].limNow > reqs[i].limNow - WINDOW_MS
                /\ reqs[j].limNow <= reqs[i].limNow}

\* the admitted requests of i's client that arrived in the window ending at i's arrival
AdmittedInWindow(i) ==
  {j \in Ids : /\ reqs[j].ip = reqs[i].ip
               /\ Admitted(j)
               /\ reqs[j].limNow > reqs[i].limNow - WINDOW_MS
               /\ reqs[j].limNow <= reqs[i].limNow}

\* C1: with the store answering, slidingRateLimiter admits a request if and
\* only if the requests recorded for its key with a timestamp in
\* (now - 60000, now], the current one included, number at most 5.
C1_AdmitIffWindowCount ==
  \A i \in Ids :
    (Decided(i) /\ reqs[i].storeOk) =>
      (Admitted(i) <=> Cardinality(RecordedInWindow(i)) <= MAX_REQUESTS)

\* C2: for every key and every instant t, at most 5 admitted requests have
\* their arrival in (t - 60000, t], requests of the same millisecond included.
\* (The count over a trailing window is largest at an arrival, so the instants
\* of the arrivals are the ones to look at.)
C2_AtMostLimitInAnyWindow ==
  \A i \in Ids : Cardinality(AdmittedInWindow(i)) <= MAX_REQUESTS

\* C3: requests of one key arriving in the same millisecond are each a window
\* entry of their own: the second of two such requests is counted one higher
\* than the first.
C3_SameMillisecondCounted ==
  \A i \in Ids : \A j \in Ids :
    (/\ j = i + 1
     /\ reqs[i].ip = reqs[j].ip
     /\ reqs[i].storeOk /\ reqs[j].storeOk
     /\ reqs[i].limNow = reqs[j].limNow)
    => reqs[j].requestCount = reqs[i].requestCount + 1

\* C4: the first six requests of a key, sent within one window, are answered
\* in this way: the first five are admitted with X-RateLimit-Remaining
\* 4,3,2,1,0 and the sixth is the one rejection, 429 with retryAfterMs 60000.
\* It holds of six requests with six different timestamps and fails only
\* where two of them share a millisecond (C3).
C4_SixthRejected ==
  (/\ Len(reqs) >= MAX_REQUESTS + 1
   /\ \A i \in 1..(MAX_REQUESTS + 1) :
        Decided(i) /\ reqs[i].storeOk /\ reqs[i].ip = reqs[1].ip
   /\ reqs[MAX_REQUESTS + 1].limNow - reqs[1].limNow < WINDOW_MS)
  => /\ \A i \in 1..MAX_REQUESTS :
          Admitted(i) /\ reqs[i].remaining = MAX_REQUESTS - i
     /\ reqs[MAX_REQUESTS + 1].status = 429
     /\ reqs[MAX_REQUESTS + 1].retryAfter = 60000
     /\ ~Admitted(MAX_REQUESTS + 1)

\* C5: when the store call of a limiter evaluation fails (either limiter), the
\* request is let through: next() runs exactly once, the route's handler
\* runs, no 429 or 5xx comes from the limiter, and GET /health is answered 200.
C5_FailOpen ==
  \A i \in Ids :
    (Decided(i) /\ ~reqs[i].storeOk) =>
      /\ reqs[i].nextCalls = 1
      /\ reqs[i].handlerRan
      /\ reqs[i].remaining = -1
      /\ reqs[i].status \in {0, 200, 503, 504}
      /\ reqs[i].status \in {503, 504} => reqs[i].route = "/call-slow"
      /\ reqs[i].route = "/health" => reqs[i].status = 200 /\ reqs[i].body = "gateway-up"

\* the fixed-window limiter's INCR succeeded and its EXPIRE failed, and the
\* request was answered 200 all the same
C5_Witness ==
  \E i \in Ids :
    /\ mounted = "fixed"
    /\ ~reqs[i].storeOk
    /\ reqs[i].requestCount = 1
    /\ reqs[i].route = "/health"
    /\ reqs[i].status = 200

\* C6: a request answered 429 by the limiter stops there: next() is not
\* called, the route's handler (the breaker logic of /call-slow included) does
\* not run, and the downstream service is not called for it.
C6_RejectedStopsInLimiter ==
  \A i \in Ids :
    reqs[i].status = 429 =>
      /\ reqs[i].pc = "done"
      /\ reqs[i].nextCalls = 0
      /\ ~reqs[i].handlerRan
      /\ reqs[i].now = -1
      /\ reqs[i].calls = 0

\* a request for /call-slow was answered 429
C6_Witness ==
  \E i \in Ids : reqs[i].status = 429 /\ reqs[i].route = "/call-slow" /\ reqs[i].pc = "done"

\* C7 (as claimed): GET /health is always answered 200 with the liveness body,
\* whatever the window of its client holds.
C7_HealthAlways200 ==
  \A i \in Ids :
    (reqs[i].route = "/health" /\ reqs[i].pc = "done") =>
      reqs[i].status = 200 /\ reqs[i].body = "gateway-up"

\* the answer to a request for /health is decided by the limiter alone
HealthOutcome ==
  \A i \in Ids :
    (reqs[i].route = "/health" /\ reqs[i].pc = "done") =>
      /\ IF reqs[i].storeOk /\ reqs[i].requestCount > MAX_REQUESTS
           THEN reqs[i].status = 429 /\ ~reqs[i].handlerRan
           ELSE reqs[i].status = 200 /\ reqs[i].body = "gateway-up"
      /\ reqs[i].now = -1
      /\ reqs[i].calls = 0

\* a step that answers a request for /health leaves the breaker as it was
HealthLeavesBreaker ==
  \A i \in Ids :
    (reqs[i].route = "/health" /\ reqs[i].pc = "limiter" /\ reqs'[i].pc = "done") =>
      UNCHANGED breakerVars

\* C7 (amended): GET /health goes through the sliding limiter like every
\* route: it is answered 429 when the limiter counts more than 5 entries in
\* its client's window and 200 with the liveness body otherwise; the breaker
\* is neither read nor changed, so its state makes no difference.
C7_HealthBehindLimiterOnly == []HealthOutcome /\ [][HealthLeavesBreaker]_vars

\* one request for /health was answered 200 while the circuit was open and
\* cooling down, and another was answered 429
C7_Witness ==
  \E i \in Ids : \E j \in Ids :
    /\ reqs[i].route = "/health" /\ reqs[i].status = 200
    /\ reqs[i].sawOpen /\ reqs[i].limNow - reqs[i].sawLast < OPEN_TIMEOUT_MS
    /\ reqs[j].route = "/health" /\ reqs[j].status = 429

\* the calls that ran the handler of /call-slow before call i failed one
\* after another, from call j on (504: both attempts failed)
FailedFrom(j, i) == \A m \in j..(i - 1) : reqs[m].status = 504

\* the number of consecutive failed calls just before call i
FailuresBefore(i) == Cardinality({j \in 1..(i - 1) : FailedFrom(j, i)})

\* the breaker has been Closed from the start until call i reached the handler
ClosedUntil(i) == \A j \in 1..(i - 1) : ~reqs[j].sawOpen

\* C8: for calls made one after another, from the start in state Closed: a
\* call finds the circuit open exactly when the 3 calls before it failed, a
\* call finds the circuit closed with failureCount equal to the number of
\* consecutive failures before it (0 after a success, less than 3), and the
\* call that follows 3 consecutive failures, the cooldown not yet over, is
\* answered 503 without any call of the downstream service.
C8_OpensAfterThreeFailures ==
  \A i \in Ids :
    (reqs[i].handlerRan /\ ClosedUntil(i)) =>
      /\ reqs[i].sawOpen <=> FailuresBefore(i) = FAILURE_THRESHOLD
      /\ FailuresBefore(i) <= FAILURE_THRESHOLD
      /\ reqs[i].sawCount = FailuresBefore(i)
      /\ (i > 1 /\ reqs[i - 1].status = 200) => reqs[i].sawCount = 0
      /\ (reqs[i].sawOpen /\ reqs[i].now - reqs[i].sawLast < OPEN_TIMEOUT_MS) =>
           reqs[i].status = 503 /\ reqs[i].calls = 0 /\ reqs[i].pc = "done"

\* a success, then three failed calls, then a call answered 503 without an attempt
C8_Witness ==
  \E i \in Ids :
    /\ i > FAILURE_THRESHOLD + 1
    /\ reqs[i - 4].status = 200
    /\ FailuresBefore(i) = FAILURE_THRESHOLD
    /\ ClosedUntil(i)
    /\ reqs[i].status = 503
    /\ reqs[i].calls = 0

\* C9: a call that reaches the handler while the circuit is open and
\* now - lastFailureTime < 10000 is answered 503 at once, and the downstream
\* service is not called for it.
C9_OpenRejects ==
  \A i \in Ids :
    (/\ reqs[i].handlerRan
     /\ reqs[i].sawOpen
     /\ reqs[i].now - reqs[i].sawLast < OPEN_TIMEOUT_MS)
    => reqs[i].status = 503 /\ reqs[i].calls = 0 /\ reqs[i].pc = "done"

\* a call was answered 503 one millisecond before the end of the cooldown
C9_Witness ==
  \E i \in Ids :
    /\ reqs[i].sawOpen
    /\ reqs[i].now - reqs[i].sawLast = OPEN_TIMEOUT_MS - 1
    /\ reqs[i].status = 503
    /\ reqs[i].calls = 0

\* the step in which call i reaches the handler of /call-slow
Enters(i) == reqs[i].pc = "limiter" /\ reqs'[i].pc # "limiter" /\ reqs'[i].handlerRan

\* C10: a call that reaches the handler while the circuit is open and
\* now - lastFailureTime >= 10000 (the boundary included) is not answered
\* 503: the step closes the circuit with failureCount 0 (half-open) and
\* starts that call's first attempt at the downstream service.
C10_ProbeAfterCooldown ==
  [][\A i \in Ids :
       (Enters(i) /\ circuitOpen /\ clock - lastFailureTime >= OPEN_TIMEOUT_MS) =>
         /\ ~circuitOpen'
         /\ failureCount' = 0
         /\ reqs'[i].status = 0
         /\ reqs'[i].pc = "attempt1"
         /\ reqs'[i].calls = 1]_vars

\* a call arrived exactly 10000 ms after lastFailureTime, found the circuit
\* open and is at its first attempt
C10_Witness ==
  \E i \in Ids :
    /\ reqs[i].sawOpen
    /\ reqs[i].now - reqs[i].sawLast = OPEN_TIMEOUT_MS
    /\ reqs[i].pc = "attempt1"
    /\ reqs[i].calls = 1
    /\ ~circuitOpen

\* call i found the circuit open and was let through: the probe of half-open
Probe(i) == reqs[i].handlerRan /\ reqs[i].sawOpen /\ reqs[i].calls >= 1

\* C11: for calls made one after another: when the probe has failed (504) the
\* circuit is open again with lastFailureTime reset, and the call that follows
\* the failed probe within 10000 ms is answered 503 without any call of the
\* downstream service.
C11_FailedProbeReopens ==
  \A i \in Ids :
    (Probe(i) /\ reqs[i].status = 504) =>
      /\ Len(reqs) = i => (circuitOpen /\ lastFailureTime >= reqs[i].now)
      /\ \A j \in Ids :
           (/\ j = i + 1
            /\ reqs[j].handlerRan
            /\ reqs[j].now - reqs[i].now < OPEN_TIMEOUT_MS)
           => reqs[j].status = 503 /\ reqs[j].calls = 0

\* C12: for calls made one after another: when the probe has succeeded the
\* circuit is closed with failureCount 0, and of the calls that follow it,
\* failing one after another, the first three find the circuit closed with
\* failureCount 0, 1, 2 and the fourth is the first to find it open.
C12_ProbeSuccessCloses ==
  \A p \in Ids :
    (Probe(p) /\ reqs[p].status = 200) =>
      /\ Len(reqs) = p => (~circuitOpen /\ failureCount = 0)
      /\ \A i \in Ids :
           (/\ i > p
            /\ i - p - 1 <= FAILURE_THRESHOLD
            /\ reqs[i].handlerRan
            /\ FailedFrom(p + 1, i))
           => /\ reqs[i].sawOpen <=> (i - p - 1 = FAILURE_THRESHOLD)
              /\ ~reqs[i].sawOpen => reqs[i].sawCount = i - p - 1

\* the probe succeeded, the three calls after it failed, the third of them
\* found failureCount 2 and the circuit closed, and the fourth found it open
C12_Witness ==
  \E p \in Ids :
    /\ Probe(p) /\ reqs[p].status = 200
    /\ p + FAILURE_THRESHOLD + 1 \in Ids
    /\ FailedFrom(p + 1, p + FAILURE_THRESHOLD + 1)
    /\ ~reqs[p + FAILURE_THRESHOLD].sawOpen
    /\ reqs[p + FAILURE_THRESHOLD].sawCount = FAILURE_THRESHOLD - 1
    /\ reqs[p + FAILURE_THRESHOLD + 1].handlerRan
    /\ reqs[p + FAILURE_THRESHOLD + 1].sawOpen

\* call p is a probe whose outcome is not yet known
ProbePending(p) == Probe(p) /\ reqs[p].pc \in {"attempt1", "backoff", "attempt2"}

\* C13 (as claimed): while the outcome of the probe is not yet known, no call
\* that arrived after the probe has been passed to the downstream service.
C13_OneProbeAtATime ==
  \A p \in Ids : \A i \in Ids :
    (ProbePending(p) /\ i > p) => reqs[i].calls = 0

\* C13 (amended): the call that finds the cooldown over closes the circuit as
\* it is let through, and nothing marks it as the one probe: a call that
\* reaches the handler while the probe's outcome is not yet known, the
\* circuit not having been opened again, is passed to the downstream service
\* as well.
C13_CallsPassWhileProbePending ==
  [][\A i \in Ids : \A p \in Ids :
       (Enters(i) /\ ProbePending(p) /\ ~circuitOpen) =>
         /\ reqs'[i].status = 0
         /\ reqs'[i].pc = "attempt1"
         /\ reqs'[i].calls = 1]_vars

\* the probe is at its first attempt and a call that arrived after it, in
\* the same millisecond, is at its first attempt too
C13_Witness ==
  \E p \in Ids : \E i \in Ids :
    /\ ProbePending(p) /\ reqs[p].pc = "attempt1"
    /\ i > p
    /\ reqs[i].now = reqs[p].now
    /\ ~reqs[i].sawOpen
    /\ reqs[i].pc = "attempt1"

\* C14: one call of callSlowServiceWithRetry makes at most 2 attempts at the
\* slow service, whatever their outcomes; a request answered 504 has made
\* exactly 2, both failed, and is finished (no further attempt follows).
C14_AtMostTwoAttempts ==
  \A i \in Ids :
    /\ reqs[i].calls <= 2
    /\ reqs[i].status = 504 =>
         /\ reqs[i].calls = 2
         /\ reqs[i].failedAt >= 0 /\ reqs[i].retryAt >= 0
         /\ reqs[i].pc = "done"
    /\ reqs[i].pc = "done" => reqs[i].status # 0

\* both attempts of a call timed out and the call was answered 504
C14_Witness ==
  \E i \in Ids :
    /\ reqs[i].err1 = "timeout"
    /\ reqs[i].calls = 2
    /\ reqs[i].status = 504
    /\ reqs[i].pc = "done"

\* C15: a request whose first attempt failed and whose second succeeded is
\* answered 200 after exactly 2 attempts, the second of them started at least
\* 1000 ms after the failure of the first; a request whose first attempt
\* succeeded is answered 200 after exactly 1 attempt.
C15_RetryAfterBackoff ==
  \A i \in Ids :
    /\ reqs[i].retryAt >= 0 =>
         /\ reqs[i].failedAt >= 0
         /\ reqs[i].retryAt - reqs[i].failedAt >= BACKOFF_MS
    /\ reqs[i].status = 200 =>
         IF reqs[i].failedAt >= 0
           THEN reqs[i].calls = 2 /\ reqs[i].retryAt >= 0
           ELSE reqs[i].calls = 1 /\ reqs[i].retryAt = -1

\* a first attempt failed, another call arrived 999 ms later, the second
\* attempt started 1000 ms after the failure and succeeded
C15_Witness ==
  \E i \in Ids : \E j \in Ids :
    /\ reqs[i].failedAt >= 0
    /\ reqs[j].limNow = reqs[i].failedAt + 999
    /\ reqs[i].retryAt = reqs[i].failedAt + BACKOFF_MS
    /\ reqs[i].calls = 2
    /\ reqs[i].status = 200

\* C16: when the first attempt fails with an error that is not transient, no
\* second attempt is made: the request makes 1 attempt and is answered with
\* the failure at once, without backoff.
C16_NoRetryOfPermanentError ==
  \A i \in Ids :
    reqs[i].err1 = "permanent" =>
      /\ reqs[i].calls = 1
      /\ reqs[i].pc = "done"
      /\ reqs[i].status >= 500

\* request i has been answered, once, by the handler of /call-slow
Answered(i) ==
  /\ reqs[i].pc = "done"
  /\ reqs[i].status \in {200, 503, 504}
  /\ reqs[i].responses = 1

\* the way request i was answered fits what was done for it
AnswerFits(i) ==
  /\ reqs[i].responses <= 1
  /\ reqs[i].status = 503 => reqs[i].calls = 0
  /\ reqs[i].status = 504 => reqs[i].calls = 2
  /\ reqs[i].status = 200 => reqs[i].calls \in {1, 2}
  /\ (reqs[i].pc = "done" /\ reqs[i].handlerRan) => Answered(i)

\* C17: every request that reaches the handler of /call-slow is eventually
\* answered, exactly once, with 503 (no attempt made), 504 (both attempts
\* failed) or 200 (an attempt succeeded), even if the slow service never
\* answers.
C17_EveryCallAnswered ==
  /\ [](\A i \in Ids : AnswerFits(i))
  /\ \A i \in 1..(OutageCalls + MaxAfterOutage) :
       (i \in Ids /\ reqs[i].handlerRan) ~> (i \in Ids /\ Answered(i))

\* calls have been answered 503, 504 and 200, and none is left unanswered
C17_Witness ==
  /\ \E i \in Ids : reqs[i].status = 503 /\ Answered(i)
  /\ \E i \in Ids : reqs[i].status = 504 /\ Answered(i)
  /\ \E i \in Ids : reqs[i].status = 200 /\ Answered(i)
  /\ InFlight = {}

\* C18: the counts returned to limiter evaluations of one key are those of
\* evaluations run one at a time in the order of their insertion: each
\* evaluation's count is the number of entries recorded in its window up to
\* and including its own, and of two evaluations that are pending together
\* (their exec() not yet resumed), with no entry pruned between them, the
\* later one's count is the earlier one's plus the number of evaluations
\* from the earlier to the later: n of them on c entries return c+1 .. c+n.
C18_EvaluationsLinearizable ==
  \A i \in Ids :
    /\ reqs[i].requestCount = Cardinality(RecordedInWindow(i))
    /\ \A j \in Ids :
         (/\ j > i
          /\ reqs[i].pc = "limiter" /\ reqs[j].pc = "limiter"
          /\ RecordedInWindow(i) \subseteq RecordedInWindow(j))
         => reqs[j].requestCount = reqs[i].requestCount + (j - i)

\* C19: under concurrent calls the breaker makes no double transition: a
\* step taken while the circuit is open and leaving it open does not change
\* lastFailureTime, lastFailureTime never decreases, and the step that opens
\* the circuit sets lastFailureTime to the time of the opening, so that the
\* rejection of calls lasts the full 10000 ms from the opening.
C19_NoDoubleTransition ==
  [][/\ (circuitOpen /\ circuitOpen') => lastFailureTime' = lastFailureTime
     /\ lastFailureTime' >= lastFailureTime
     /\ (~circuitOpen /\ circuitOpen') => lastFailureTime' = clock']_vars

\* C20: no step makes a call of the slow service at a time when the circuit
\* is open and the cooldown has not elapsed; the second attempt of a request
\* that was let through before the circuit opened is such a call.
C20_NoCallWhileOpen ==
  [][(circuitOpen /\ CoolingDown(clock', lastFailureTime)) =>
       \A i \in Ids : reqs'[i].calls = reqs[i].calls]_vars

\* The store of key k after the requests 1..n of key k alone, the requests
\* of other keys left out, and the count returned to the last of them: the
\* sliding limiter's sorted set and the fixed-window limiter's counter.
RECURSIVE OwnSliding(_, _)
OwnSliding(k, n) ==
  IF n = 0 THEN [set |-> {}, exp |-> 0, count |-> 0]
  ELSE LET prev == OwnSliding(k, n - 1)
           now  == reqs[n].limNow
           res  == SlidingPipeline(IF now < prev.exp THEN prev.set ELSE {}, now)
       IN  IF reqs[n].ip # k \/ ~reqs[n].storeOk THEN prev
           ELSE [set |-> res.set, exp |-> now + 1000 * Ceil(WINDOW_MS, 1000),
                 count |-> res.requestCount]

RECURSIVE OwnFixed(_, _)
OwnFixed(k, n) ==
  IF n = 0 THEN [counter |-> 0, exp |-> -1, count |-> 0]
  ELSE LET prev == OwnFixed(k, n - 1)
           now  == reqs[n].limNow
           c    == (IF prev.exp >= 0 /\ now >= prev.exp THEN 0 ELSE prev.counter) + 1
       IN  IF reqs[n].ip # k \/ ~reqs[n].storeOk THEN prev
           ELSE [counter |-> c,
                 exp |-> IF c = 1 THEN now + 1000 * WINDOW_SECONDS ELSE prev.exp,
                 count |-> c]

\* the count the limiter would have returned to request i had no request of
\* another key been made
OwnCount(i) ==
  IF mounted = "sliding" THEN OwnSliding(reqs[i].ip, i).count
                         ELSE OwnFixed(reqs[i].ip, i).count

\* what is stored for key k is what the requests of k alone would have stored
OwnStore(k) ==
  IF mounted = "sliding"
    THEN LET o == OwnSliding(k, Len(reqs))
         IN  zset[k] = o.set /\ zexp[k] = o.exp /\ counter[k] = 0
    ELSE LET o == OwnFixed(k, Len(reqs))
         IN  counter[k] = o.counter /\ cexp[k] = o.exp /\ zset[k] = {}

\* count, remaining and decision of each request are those of its key's own requests
OwnDecision ==
  \A i \in Ids :
    /\ reqs[i].requestCount = OwnCount(i)
    /\ Decided(i) =>
         /\ reqs[i].remaining = Max(0, MAX_REQUESTS - OwnCount(i))
         /\ Admitted(i) <=> OwnCount(i) <= MAX_REQUESTS
         /\ reqs[i].status = 429 <=> OwnCount(i) > MAX_REQUESTS

\* the arrival of a request for a key leaves the entries of every other key alone
OtherKeysUntouched ==
  \A k \in TwoKeys :
    (Len(reqs') = Len(reqs) + 1 /\ reqs'[Len(reqs')].ip # k) =>
      /\ zset'[k] = zset[k] /\ zexp'[k] = zexp[k]
      /\ counter'[k] = counter[k] /\ cexp'[k] = cexp[k]

\* C21: the keys of the limiters (both of them) are independent: a request
\* for key A leaves what is stored for any other key B unchanged, and the
\* count, the remaining and the decision that a request for B gets are those
\* the requests for B alone would have given.
C21_KeysIndependent ==
  /\ [](OwnDecision /\ \A k \in TwoKeys : OwnStore(k))
  /\ [][OtherKeysUntouched]_vars

\* a request of client 1 was rejected and a later request of client 2, made
\* in the same millisecond, was admitted as the first of its window
C21_Witness ==
  \E i \in Ids : \E j \in Ids :
    /\ i < j
    /\ reqs[i].ip = 1 /\ reqs[i].status = 429
    /\ reqs[j].ip = 2 /\ reqs[j].limNow = reqs[i].limNow
    /\ Admitted(j) /\ reqs[j].requestCount = 1 /\ reqs[j].remaining = MAX_REQUESTS - 1

\* C22: the window of a key holds entries of accepted requests only: a
\* request answered 429 by the sliding limiter has no entry in the sorted set
\* of its key.
C22_RejectedNotRecorded ==
  \A i \in Ids :
    (mounted = "sliding" /\ reqs[i].status = 429) =>
      \A e \in zset[reqs[i].ip] : e.member # Member(reqs[i].limNow)

\* the admitted requests of i's client that arrived in the trailing interval
\* (t - 1000 * WINDOW_SECONDS, t], t being i's arrival
FixedAdmittedInWindow(i) ==
  {j \in Ids : /\ reqs[j].ip = reqs[i].ip
               /\ Admitted(j)
               /\ reqs[j].limNow > reqs[i].limNow - 1000 * WINDOW_SECONDS
               /\ reqs[j].limNow <= reqs[i].limNow}

C24_CounterAlwaysExpires ==
  \A k \in Keys : counter[k] > 0 => cexp[k] >= 0

\* C25: in every reachable state, under any interleaving of concurrent calls,
\* 0 <= failureCount <= 3.
C25_FailureCountBounded ==
  0 <= failureCount /\ failureCount <= FAILURE_THRESHOLD

\* what a step does to the breaker, by what it does to request i
TallyStep(i) ==
  /\ (reqs[i].pc = "attempt1" /\ reqs'[i].pc = "backoff") => UNCHANGED breakerVars
  /\ (reqs[i].pc = "backoff" /\ reqs'[i].pc = "attempt2") => UNCHANGED breakerVars
  /\ (reqs[i].status = 0 /\ reqs'[i].status = 200) =>
       /\ failureCount' = 0
       /\ UNCHANGED <<circuitOpen, lastFailureTime>>
  /\ (reqs[i].status = 0 /\ reqs'[i].status = 504) =>
       /\ reqs[i].pc = "attempt2" /\ reqs'[i].calls = 2
       /\ failureCount' = failureCount + 1

\* C26: failureCount counts requests, not attempts: the failure of a first
\* attempt and the start of the retry leave the breaker as it is, a request
\* answered 200 (after one attempt or two) sets failureCount to 0, and
\* failureCount goes up, by 1, only in the step that answers 504 a request
\* whose two attempts failed.
C26_TallyCountsRequests ==
  [][/\ \A i \in Ids : TallyStep(i)
     /\ failureCount' > failureCount =>
          \E i \in Ids : reqs[i].status = 0 /\ reqs'[i].status = 504]_vars

\* a request found failureCount 1, failed its first attempt, succeeded with
\* the second, and failureCount is 0
C26_Witness ==
  \E i \in Ids :
    /\ reqs[i].sawCount = 1
    /\ reqs[i].failedAt >= 0
    /\ reqs[i].calls = 2
    /\ reqs[i].status = 200
    /\ failureCount = 0
    /\ InFlight = {}

\* C27: the 429 of the sliding limiter carries retryAfterMs = 60000, and a
\* client that got it at time t and sends nothing in (t, t + retryAfterMs) has
\* its request at t + retryAfterMs admitted (as the only entry of its
\* window), the store being available.
C27_RetryGuidanceSufficient ==
  \A i \in Ids :
    reqs[i].status = 429 =>
      /\ reqs[i].retryAfter = 60000
      /\ \A j \in Ids :
           (/\ j > i
            /\ reqs[j].ip = reqs[i].ip
            /\ Decided(j) /\ reqs[j].storeOk
            /\ reqs[j].limNow = reqs[i].limNow + reqs[i].retryAfter
            /\ \A k \in (i + 1)..(j - 1) : reqs[k].limNow = reqs[i].limNow)
           => Admitted(j) /\ reqs[j].requestCount = 1

\* a request was answered 429 and the next one, 60000 ms later, was admitted
C27_Witness ==
  \E i \in Ids :
    /\ i + 1 \in Ids
    /\ reqs[i].status = 429
    /\ reqs[i + 1].limNow = reqs[i].limNow + 60000
    /\ Admitted(i + 1)
    /\ reqs[i + 1].status = 200

\* C28: the step that answers a call 503 (circuit open) leaves failureCount,
\* circuitOpen and lastFailureTime as they were, so that rejected calls do
\* not extend the cooldown.
C28_RejectionLeavesBreaker ==
  [][\A i \in Ids :
       (reqs[i].status = 0 /\ reqs'[i].status = 503) => UNCHANGED breakerVars]_vars

\* a call was answered 503, and a later call, 10000 ms after the
\* lastFailureTime that the rejected call had found, was let through
C28_Witness ==
  \E i \in Ids : \E j \in Ids :
    /\ i < j
    /\ reqs[i].status = 503
    /\ Probe(j)
    /\ reqs[j].sawLast = reqs[i].sawLast
    /\ reqs[j].now - reqs[j].sawLast = OPEN_TIMEOUT_MS

\* C29: with delay=800 asked of a slow service that answers after the delay
\* it is asked, and a timeout of 500 ms per attempt, every attempt times out:
\* no request for /call-slow is answered 200, a request for which the slow
\* service was called ends with two attempts and 504, and no probe succeeds.
C29_EveryAttemptTimesOut ==
  \A i \in Ids :
    /\ reqs[i].status # 200
    /\ reqs[i].calls >= 1 => reqs[i].status \in {0, 504}
    /\ (reqs[i].calls >= 1 /\ reqs[i].pc = "done") =>
         reqs[i].status = 504 /\ reqs[i].calls = 2
    /\ reqs[i].calls >= 2 => reqs[i].err1 = "timeout"
    /\ (Probe(i) /\ reqs[i].pc = "done") => reqs[i].status = 504

\* three calls ended in 504, a call was answered 503, and the probe after
\* the cooldown ended in 504 as well
C29_Witness ==
  \E p \in Ids : \E j \in Ids :
    /\ j < p
    /\ reqs[j].status = 503
    /\ Probe(p) /\ reqs[p].pc = "done" /\ reqs[p].status = 504
    /\ Cardinality({i \in Ids : reqs[i].status = 504}) = FAILURE_THRESHOLD + 1

====
